---------------------------- MODULE Spec2Model ----------------------------
(***************************************************************************)
(* Model of backend-cal/cal_engine/assessment/models.py: the Question and  *)
(* ChoiceSolution tables with the validators that run on their save paths  *)
(* (the post_save receiver validate_total_marks, ChoiceSolution.clean),    *)
(* and NATSolution.clean as a function of a NATSolution instance.          *)
(*                                                                         *)
(* Two specifications:                                                     *)
(*   Spec     the stored Question / ChoiceSolution rows under saves;       *)
(*   SpecNAT  NATSolution instances and the outcome of clean() on them.    *)
(***************************************************************************)
EXTENDS Integers, Sequences, FiniteSets

VARIABLES
    question,   \* the Question table: pk -> row
    choices,    \* the ChoiceSolution table: pk -> row
    last,       \* the last save: the operation, the question it concerns (its
                \* pk, or the foreign key of the choice), the error it raised
    rejected,   \* TRUE once some save has raised ValidationError
    nat,        \* a NATSolution instance (its fields)
    natErr      \* what clean() raised on it ("none" before clean() ran)

vars == <<question, choices, last, rejected, nat, natErr>>

---------------------------------------------------------------------------
(* Bounds *)

MaxChoices == 2     \* ChoiceSolution pks are 1..MaxChoices
MaxMarks == 1       \* Question.marks and ChoiceSolution.marks are in 0..MaxMarks
MaxDigits == 3      \* significant digits of a float value
MaxPrecision == 2   \* decimal_precision is null or in 0..MaxPrecision

\* The questions of the model. ChoiceSolution.question is a foreign key into it.
QuestionIds == {1}
ChoiceIds == 1..MaxChoices

\* Question.marks is a PositiveIntegerField; ChoiceSolution.marks is a
\* FloatField, drawn here from the whole numbers, which float addition sums
\* exactly.
MarksValues == 0..MaxMarks

---------------------------------------------------------------------------
(* The Question and ChoiceSolution tables *)

QUESTION_TYPES == {"MCQ", "MSQ", "NAT", "DESC"}

\* A pk with no row. The fields of an absent row are never read.
NoQuestion == [exists |-> FALSE, type |-> "DESC", marks |-> 0, partial_marking |-> FALSE]
NoChoice == [exists |-> FALSE, question |-> 1, marks |-> 0, is_correct |-> FALSE]

Question(t, m, pm) ==
    [exists |-> TRUE, type |-> t, marks |-> m, partial_marking |-> pm]

ChoiceSolution(q, m, c) ==
    [exists |-> TRUE, question |-> q, marks |-> m, is_correct |-> c]

\* question.choice_solutions.all(): the stored choices whose foreign key is q
choice_solutions(q) ==
    {c \in ChoiceIds : choices[c].exists /\ choices[c].question = q}

RECURSIVE SumMarks(_)
SumMarks(S) ==
    IF S = {} THEN 0
    ELSE LET c == CHOOSE x \in S : TRUE
         IN choices[c].marks + SumMarks(S \ {c})

\* sum(choice.marks for choice in instance.choice_solutions.all())
total_marks_from_choices(q) == SumMarks(choice_solutions(q))

\* A variant that skips the check when partial marking is allowed.
validate_total_marks_partial(q, instance) ==
    IF instance.type \in {"MCQ", "MSQ"} /\ ~instance.partial_marking
    THEN IF total_marks_from_choices(q) # instance.marks
         THEN "MarksMismatch" ELSE "ok"
    ELSE "ok"

\* The post_save receiver of Question: the error it raises ("ok": none).
\* q is instance.pk; the choices are read from the table.
validate_total_marks(q, instance) ==
    IF instance.type \in {"MCQ", "MSQ"}
    THEN IF total_marks_from_choices(q) # instance.marks
         THEN "MarksMismatch" ELSE "ok"
    ELSE "ok"

\* self.question.choice_solutions.filter(is_correct=True)
correct_options(q) == {c \in choice_solutions(q) : choices[c].is_correct}

\* A variant that applies the single-correct rule to MSQ questions too.
ChoiceSolution_clean_msq(pk, q, is_correct) ==
    IF question[q].type \in {"MCQ", "MSQ"}
    THEN IF is_correct /\ correct_options(q) # {} /\ pk \notin correct_options(q)
         THEN "MultipleCorrect" ELSE "ok"
    ELSE "ok"

\* A variant that lets a new choice pass when another one is already correct.
ChoiceSolution_clean_new(pk, q, is_correct) ==
    IF question[q].type = "MCQ"
    THEN IF is_correct /\ correct_options(q) # {} /\ pk \in ChoiceIds
            /\ pk \notin correct_options(q)
         THEN "MultipleCorrect" ELSE "ok"
    ELSE "ok"

\* ChoiceSolution.clean: the error it raises ("ok": none). pk is self.pk
\* (0, never a stored pk, for an instance not saved yet), q is self.question,
\* is_correct is self.is_correct.
ChoiceSolution_clean(pk, q, is_correct) ==
    IF question[q].type = "MCQ"
    THEN IF is_correct /\ correct_options(q) # {} /\ pk \notin correct_options(q)
         THEN "MultipleCorrect" ELSE "ok"
    ELSE "ok"

\* Question.save() of a new or an existing question: the row is written, then
\* post_save fires validate_total_marks on the instance. The receiver runs
\* after the write and no transaction encloses the two, so the row stays
\* written when the receiver raises.
SaveQuestion(q, t, m, pm) ==
    LET instance == Question(t, m, pm)
        err == validate_total_marks(q, instance)
    IN  /\ question' = [question EXCEPT ![q] = instance]
        /\ last' = [op |-> "saveQuestion", q |-> q, err |-> err]
        /\ rejected' = (rejected \/ err # "ok")
        /\ UNCHANGED <<choices, nat, natErr>>

\* The write of a ChoiceSolution gated by clean(): clean() runs on the
\* instance, and the row is written only if it raises nothing. No receiver
\* is registered for ChoiceSolution.
GatedChoiceSave(pk, selfpk, q, m, c) ==
    LET err == ChoiceSolution_clean(selfpk, q, c)
    IN  /\ choices' = IF err = "ok"
                      THEN [choices EXCEPT ![pk] = ChoiceSolution(q, m, c)]
                      ELSE choices
        /\ last' = [op |-> "saveChoice", q |-> q, err |-> err]
        /\ rejected' = (rejected \/ err # "ok")
        /\ UNCHANGED <<question, nat, natErr>>

\* A new ChoiceSolution of an existing question: self.pk is None in clean().
CreateChoice(pk, q, m, c) ==
    /\ question[q].exists
    /\ ~choices[pk].exists
    /\ GatedChoiceSave(pk, 0, q, m, c)

\* An update of a stored ChoiceSolution: self.pk is its pk in clean().
UpdateChoice(pk, q, m, c) ==
    /\ question[q].exists
    /\ choices[pk].exists
    /\ GatedChoiceSave(pk, pk, q, m, c)

---------------------------------------------------------------------------
(* NATSolution *)

\* A float is held as the shortest decimal that round-trips to it, which is
\* what str() prints: its significant digits d1..dn (no trailing zero) and
\* the position decpt of the decimal point, the value being
\* 0.d1..dn * 10^decpt.
SigDigits == <<3, 1, 4, 1, 5, 9, 2, 6>>
DecPts == {-4, -3, 0, 1, 16, 17}
Floats == {[digits |-> SubSeq(SigDigits, 1, n), decpt |-> p] :
              n \in 1..MaxDigits, p \in DecPts}

\* An optional field is <<>> (null) or <<v>>.
Optional(S) == {<< >>} \cup {<<v>> : v \in S}

Char(d) == <<"0", "1", "2", "3", "4", "5", "6", "7", "8", "9">>[d + 1]

RECURSIVE Chars(_)
Chars(ds) == IF ds = << >> THEN << >> ELSE <<Char(Head(ds))>> \o Chars(Tail(ds))

RECURSIVE Zeros(_)
Zeros(n) == IF n <= 0 THEN << >> ELSE <<"0">> \o Zeros(n - 1)

\* The exponent of the scientific form: a sign and at least two digits.
ExpChars(e) ==
    LET a == IF e < 0 THEN -e ELSE e
    IN  <<"e", IF e < 0 THEN "-" ELSE "+">>
        \o (IF a < 10 THEN <<"0", Char(a)>> ELSE <<Char(a \div 10), Char(a % 10)>>)

\* str(number) of a float, as a sequence of characters: the scientific form
\* when decpt <= -4 or decpt > 16, the positional form otherwise; the
\* positional form of a whole number ends in ".0", the scientific form of a
\* one-digit mantissa has no point ("1e-05").
str(x) ==
    LET n == Len(x.digits)
        ds == Chars(x.digits)
    IN  IF x.decpt <= -4 \/ x.decpt > 16
        THEN (IF n = 1 THEN ds ELSE <<ds[1], ".">> \o SubSeq(ds, 2, n))
             \o ExpChars(x.decpt - 1)
        ELSE IF x.decpt <= 0
             THEN <<"0", ".">> \o Zeros(-x.decpt) \o ds
        ELSE IF x.decpt < n
             THEN SubSeq(ds, 1, x.decpt) \o <<".">> \o SubSeq(ds, x.decpt + 1, n)
        ELSE ds \o Zeros(x.decpt - n) \o <<".", "0">>

\* str(number).split(".")[-1] if "." in str(number) else ""
decimal_part(s) ==
    LET dots == {i \in 1..Len(s) : s[i] = "."}
    IN  IF dots = {} THEN << >>
        ELSE LET i == CHOOSE j \in dots : \A k \in dots : k <= j
             IN  SubSeq(s, i + 1, Len(s))

validate_decimal_precision(number, precision) ==
    Len(decimal_part(str(number))) <= precision

\* A variant that demands a precision of Integer solutions as well.
NATSolution_clean_any_type(self) ==
    IF self.decimal_precision = << >> THEN "MissingPrecision" ELSE "ok"

\* A variant that checks tolerance_max before tolerance_min.
NATSolution_clean_reordered(self) ==
    IF self.value_type = "float"
    THEN IF self.decimal_precision = << >> THEN "MissingPrecision"
         ELSE LET p == self.decimal_precision[1]
              IN  IF ~validate_decimal_precision(self.value, p) THEN "value"
                  ELSE IF self.tolerance_max # << >>
                          /\ ~validate_decimal_precision(self.tolerance_max[1], p)
                       THEN "tolerance_max"
                  ELSE IF self.tolerance_min # << >>
                          /\ ~validate_decimal_precision(self.tolerance_min[1], p)
                       THEN "tolerance_min"
                  ELSE "ok"
    ELSE "ok"

\* NATSolution.clean: the ValidationError it raises, named by what the
\* message is about ("ok": none).
NATSolution_clean(self) ==
    IF self.value_type = "float"
    THEN IF self.decimal_precision = << >> THEN "MissingPrecision"
         ELSE LET p == self.decimal_precision[1]
              IN  IF ~validate_decimal_precision(self.value, p) THEN "value"
                  ELSE IF self.tolerance_min # << >>
                          /\ ~validate_decimal_precision(self.tolerance_min[1], p)
                       THEN "tolerance_min"
                  ELSE IF self.tolerance_max # << >>
                          /\ ~validate_decimal_precision(self.tolerance_max[1], p)
                       THEN "tolerance_max"
                  ELSE "ok"
    ELSE "ok"

VALUE_TYPES == {"int", "float"}

NATSolutions ==
    [value_type : VALUE_TYPES,
     value : Floats,
     tolerance_min : Optional(Floats),
     tolerance_max : Optional(Floats),
     decimal_precision : Optional(0..MaxPrecision)]

\* The instance of Spec, where no NATSolution is touched.
NoNAT ==
    [value_type |-> "int", value |-> [digits |-> <<3>>, decpt |-> 1],
     tolerance_min |-> << >>, tolerance_max |-> << >>, decimal_precision |-> << >>]

\* clean() runs on the instance.
CleanNAT ==
    /\ natErr = "none"
    /\ natErr' = NATSolution_clean(nat)
    /\ UNCHANGED <<question, choices, last, rejected, nat>>

\* The declared precision of the instance is edited; clean() has not run on
\* the edited instance.
SetPrecision(p) ==
    /\ natErr # "none"
    /\ nat' = [nat EXCEPT !.decimal_precision = p]
    /\ natErr' = "none"
    /\ UNCHANGED <<question, choices, last, rejected>>

---------------------------------------------------------------------------
(* Specifications *)

EmptyTables ==
    /\ question = [q \in QuestionIds |-> NoQuestion]
    /\ choices = [c \in ChoiceIds |-> NoChoice]
    /\ last = [op |-> "none", q |-> 0, err |-> "ok"]
    /\ rejected = FALSE

Init ==
    /\ EmptyTables
    /\ nat = NoNAT
    /\ natErr = "none"

Next ==
    \/ \E q \in QuestionIds, t \in QUESTION_TYPES, m \in MarksValues, pm \in BOOLEAN :
          SaveQuestion(q, t, m, pm)
    \/ \E pk \in ChoiceIds, q \in QuestionIds, m \in MarksValues, c \in BOOLEAN :
          CreateChoice(pk, q, m, c)
    \/ \E pk \in ChoiceIds, q \in QuestionIds, m \in MarksValues, c \in BOOLEAN :
          UpdateChoice(pk, q, m, c)

Spec == Init /\ [][Next]_vars

InitNAT ==
    /\ EmptyTables
    /\ nat \in NATSolutions
    /\ natErr = "none"

NextNAT ==
    \/ CleanNAT
    \/ \E p \in Optional(0..MaxPrecision) : SetPrecision(p)

SpecNAT == InitNAT /\ [][NextNAT]_vars

---------------------------------------------------------------------------
(* Properties *)

MCQs == {q \in QuestionIds : question[q].exists /\ question[q].type = "MCQ"}

ChoiceQuestions ==
    {q \in QuestionIds : question[q].exists /\ question[q].type \in {"MCQ", "MSQ"}}

\* The sum of the marks of the stored choices of q whose pk is at most n.
RECURSIVE MarksUpTo(_, _)
MarksUpTo(q, n) ==
    IF n = 0 THEN 0
    ELSE MarksUpTo(q, n - 1)
         + (IF choices[n].exists /\ choices[n].question = q THEN choices[n].marks ELSE 0)

\* The number of digits after the decimal point of the decimal 0.d1..dn * 10^decpt.
FractionDigits(x) ==
    IF Len(x.digits) > x.decpt THEN Len(x.digits) - x.decpt ELSE 0

\* C1: after any sequence of accepted saves of Questions and of Choices, every
\* MCQ question has at most one attached choice flagged correct.
C1_SingleCorrectAfterAcceptedSaves ==
    ~rejected => \A q \in MCQs : Cardinality(correct_options(q)) <= 1

\* C2: after any sequence of accepted saves of Questions and of Choices, the
\* marks of the choices of every MCQ/MSQ question sum to the question's marks.
C2_MarksSumAfterAcceptedSaves ==
    ~rejected => \A q \in ChoiceQuestions : MarksUpTo(q, MaxChoices) = question[q].marks

\* C3: a save that a validator rejects leaves the stored Question and Choice
\* records as they were before it.
C3_RejectedSaveLeavesRecords ==
    [][last'.err # "ok" => (question' = question /\ choices' = choices)]_vars

C5_CleanFailsIffOtherCorrect ==
    \A q \in MCQs, pk \in {0} \cup ChoiceIds, c \in BOOLEAN :
        (pk = 0 \/ choices[pk].exists) =>
            ((ChoiceSolution_clean(pk, q, c) # "ok")
                <=> (c /\ \E o \in correct_options(q) : o # pk))

\* C6: clean() fails with the missing-precision error whenever value_type is
\* 'float' and decimal_precision is null, and succeeds whenever value_type is
\* 'int', whatever the other fields hold.
C6_MissingPrecision ==
    natErr # "none" =>
        /\ (nat.value_type = "float" /\ nat.decimal_precision = << >>)
              => natErr = "MissingPrecision"
        /\ nat.value_type = "int" => natErr = "ok"

\* clean() raised the missing-precision error on a float solution.
C6_Witness ==
    /\ natErr = "MissingPrecision"
    /\ nat.value_type = "float"
    /\ nat.decimal_precision = << >>

\* C7: for a float solution with precision p, clean() succeeds if and only if
\* the value and each present tolerance bound has at most p digits after the
\* decimal point, a number without fractional part having none.
C7_SucceedsIffDigitsWithinPrecision ==
    (natErr # "none" /\ nat.value_type = "float" /\ nat.decimal_precision # << >>) =>
        LET p == nat.decimal_precision[1]
            within(f) == f = << >> \/ FractionDigits(f[1]) <= p
        IN  (natErr = "ok") <=> /\ FractionDigits(nat.value) <= p
                                /\ within(nat.tolerance_min)
                                /\ within(nat.tolerance_max)

\* C8: validate_total_marks succeeds for every NAT or DESC question whatever
\* choices are attached, and ChoiceSolution.clean succeeds for every choice
\* whose question is not MCQ.
C8_NoOpForOtherTypes ==
    /\ \A q \in QuestionIds, t \in {"NAT", "DESC"}, m \in MarksValues, pm \in BOOLEAN :
          validate_total_marks(q, Question(t, m, pm)) = "ok"
    /\ \A q \in QuestionIds \ MCQs, pk \in {0} \cup ChoiceIds, c \in BOOLEAN :
          ChoiceSolution_clean(pk, q, c) = "ok"
    /\ (last.op = "saveQuestion" /\ question[last.q].type \in {"NAT", "DESC"})
          => last.err = "ok"
    /\ (last.op = "saveChoice" /\ last.q \notin MCQs) => last.err = "ok"

\* A Choice save was accepted that leaves an MSQ question with two choices
\* flagged correct.
C8_Witness ==
    /\ last.op = "saveChoice" /\ last.err = "ok"
    /\ \E q \in {last.q} :
          /\ question[q].type = "MSQ"
          /\ Cardinality(correct_options(q)) >= 2

\* C9: clean() reports the first violation in the order: missing
\* decimal_precision, value, tolerance_min, tolerance_max.
C9_FirstViolationReported ==
    (natErr # "none" /\ nat.value_type = "float") =>
        IF nat.decimal_precision = << >> THEN natErr = "MissingPrecision"
        ELSE LET p == nat.decimal_precision[1]
                 bad(f) == f # << >> /\ ~validate_decimal_precision(f[1], p)
             IN  /\ natErr # "MissingPrecision"
                 /\ natErr = "value" <=> bad(<<nat.value>>)
                 /\ natErr = "tolerance_min"
                       <=> (~bad(<<nat.value>>) /\ bad(nat.tolerance_min))
                 /\ natErr = "tolerance_max"
                       <=> (/\ ~bad(<<nat.value>>) /\ ~bad(nat.tolerance_min)
                            /\ bad(nat.tolerance_max))

\* Both tolerance bounds exceed the precision and clean() named tolerance_min.
C9_Witness ==
    /\ natErr = "tolerance_min"
    /\ nat.decimal_precision # << >>
    /\ nat.tolerance_min # << >> /\ nat.tolerance_max # << >>
    /\ ~validate_decimal_precision(nat.tolerance_min[1], nat.decimal_precision[1])
    /\ ~validate_decimal_precision(nat.tolerance_max[1], nat.decimal_precision[1])

\* C10: a Choice create or update whose clean() runs atomically with its
\* write, on a question that stays MCQ and has at most one choice flagged
\* correct, leaves it with at most one choice flagged correct.
C10_GatedSavesKeepSingleCorrect ==
    [][\A q \in QuestionIds :
          (/\ question' = question
           /\ q \in MCQs
           /\ Cardinality(correct_options(q)) <= 1)
          => Cardinality(correct_options(q))' <= 1]_vars

\* A Choice save flagged correct was refused on an MCQ question that has one
\* choice flagged correct.
C10_Witness ==
    /\ last.op = "saveChoice" /\ last.err = "MultipleCorrect"
    /\ last.q \in MCQs
    /\ Cardinality(correct_options(last.q)) = 1

=============================================================================
